---- MODULE Spec2Model ----
(***************************************************************************)
(* Event lifecycle and capacity-gated RSVP reconciliation of eventa_app.   *)
(*                                                                         *)
(* The store (tables "events" and "rsvps") is shared; every page holds a   *)
(* snapshot of it taken when the page was rendered, and every handler      *)
(* decides on that snapshot and then writes to the store by id.            *)
(***************************************************************************)
EXTENDS Integers, Sequences, FiniteSets, TLC

VARIABLES
    events,     \* table "events": event id -> row
    rsvps,      \* table "rsvps": sequence of rows, the row id is the index
    adminView,  \* per admin: the rendered AdminPage (which buttons it shows)
    editPage,   \* per venue user: the mounted EditEventPage and its state
    btn,        \* per attendee session: the mounted RSVPButton and its state
    toast,      \* the notification raised by the last handler, if any
    badge       \* the "Updated ... ago" badge of an event card

vars == <<events, rsvps, adminView, editPage, btn, toast, badge>>

----------------------------------------------------------------------------
(* Bounds *)

MaxCapacity == 2    \* capacities typed into the forms range over -1..MaxCapacity
MaxRows == 2        \* rows the rsvps table can hold
MaxDays == 370      \* the oldest updated_at a badge is rendered for, in days

----------------------------------------------------------------------------
(* Values *)

NULL == "null"

EventIds == {"e1"}
Admins == {"adminA", "adminB"}
Venues == {"venue1", "venue2"}
Creators == {"venue1"}              \* the venue that submits the event
Attendees == {"u1", "u2"}
Guest == "guest"                    \* a browser without a valid session

\* Browser sessions showing an RSVPButton, and the user logged in there.
Sessions == {"s1", "s2", "s3", "s4"}
SessionUser == [s1 |-> "u1", s2 |-> "u1", s3 |-> "u2", s4 |-> Guest]

RsvpTypes == {"interested", "going"}
\* event.date stands for the content fields of an event (title, description,
\* category, date, time, location, price, image, contact info): the forms
\* and the updates treat them alike, and date is the one the queries read.
Dates == {1, 2}
ReasonInputs == {"", " ", " late ", "late"}
CapacityInputs == (-1)..MaxCapacity

\* An optional number (number | null) is the empty set or a singleton.
NoNumber == {}
Some(n) == {n}
IsSet(opt) == opt # {}
ValueOf(opt) == CHOOSE n \in opt : TRUE

\* String.prototype.trim on the reasons typed into the modals.
Trim(s) ==
    CASE s = " "      -> ""
      [] s = " late " -> "late"
      [] OTHER        -> s

----------------------------------------------------------------------------
(* Time ago *)

\* Math.floor(a / b) for a >= 0, b > 0
Floor(a, b) == a \div b

\* the template `${n} ${n === 1 ? singular : plural} ago`
Ago(n, singular, plural) ==
    [n |-> n,
     unit |-> singular,
     text |-> ToString(n) \o " "
                \o (IF n = 1 THEN singular ELSE plural) \o " ago"]

\* formatTimeAgo, as a function of the seconds between updated_at and now
formatTimeAgo(seconds) ==
    LET minutes == Floor(seconds, 60)
        hours == Floor(minutes, 60)
        days == Floor(hours, 24)
        weeks == Floor(days, 7)
        months == Floor(days, 30)
        years == Floor(days, 365)
    IN IF seconds < 60 THEN [n |-> 0, unit |-> "now", text |-> "just now"]
       ELSE IF minutes < 60 THEN Ago(minutes, "minute", "minutes")
       ELSE IF hours < 24 THEN Ago(hours, "hour", "hours")
       ELSE IF days < 7 THEN Ago(days, "day", "days")
       ELSE IF weeks < 4 THEN Ago(weeks, "week", "weeks")
       ELSE IF months < 12 THEN Ago(months, "month", "months")
       ELSE Ago(years, "year", "years")

\* the ages of updated_at the badge is rendered for: around the turn of
\* every minute, hour and day of the first MaxDays days
ElapsedInputs ==
    {d * 86400 + x : d \in 0..MaxDays, x \in {0, 59, 60, 3599, 3600, 86399}}

NoBadge == [seconds |-> 0, rendered |-> FALSE, n |-> 0, unit |-> NULL,
            text |-> NULL]

\* an event card that has not rendered its badge: updated_at is `seconds` old
CardOf(seconds) == [NoBadge EXCEPT !.seconds = seconds]

\* "Updated {formatTimeAgo(event.updated_at)}"
RenderBadge ==
    LET r == formatTimeAgo(badge.seconds)
    IN /\ ~badge.rendered
       /\ badge' = [badge EXCEPT !.rendered = TRUE, !.n = r.n,
                                 !.unit = r.unit, !.text = r.text]
       /\ UNCHANGED <<events, rsvps, adminView, editPage, btn, toast>>

----------------------------------------------------------------------------
(* Queries on the store *)

\* count of active rows of one type for an event
\*   .eq("event_id", ..).eq("rsvp_type", ..).eq("status", "active")
CountRsvps(table, e, type) ==
    Cardinality({i \in DOMAIN table :
        /\ table[i].event_id = e
        /\ table[i].rsvp_type = type
        /\ table[i].status = "active"})

GoingCount(e) == CountRsvps(rsvps, e, "going")
InterestedCount(e) == CountRsvps(rsvps, e, "interested")

\* ids of the active rows of a user for an event
ActiveRows(table, u, e) ==
    {i \in DOMAIN table :
        /\ table[i].user_id = u
        /\ table[i].event_id = e
        /\ table[i].status = "active"}

\* .single(): the row when exactly one matches, otherwise an error (PGRST116)
\* and no data; 0 stands for "no data".
Single(ids) == IF Cardinality(ids) = 1 THEN CHOOSE i \in ids : TRUE ELSE 0

----------------------------------------------------------------------------
(* Rendering of the pages *)

\* AdminPage: ApproveRejectButtons are rendered for the pending events,
\* CancellationApprovalButtons for the open cancellation requests.
RenderAdminPage(evs) ==
    [pending |-> {e \in DOMAIN evs : evs[e].status = "pending"},
     cancellationRequests |-> {e \in DOMAIN evs :
        /\ evs[e].cancellation_requested = TRUE
        /\ evs[e].cancellation_approved_by_admin = FALSE}]

\* The public listing: approved events that are not in the past.
EventsPageQuery(evs, today) ==
    {e \in DOMAIN evs : evs[e].status = "approved" /\ evs[e].date >= today}

\* The event detail page: the event by id, approved only (else notFound()).
EventDetailQuery(evs, e) ==
    {x \in DOMAIN evs : x = e /\ evs[x].status = "approved"}

\* VenueEventsPage: the sections of the venue's dashboard.
VenueSections(evs, v, today) ==
    LET mine == {e \in DOMAIN evs : evs[e].venue_user_id = v}
        isPast(e) == evs[e].date < today
    IN [upcoming |-> {e \in mine : ~isPast(e) /\ evs[e].status = "approved"},
        past     |-> {e \in mine : isPast(e) /\ evs[e].status # "rejected"},
        pending  |-> {e \in mine : evs[e].status = "pending"},
        rejected |-> {e \in mine : evs[e].status = "rejected"}]

\* EditEventPage: loaded is "the form is rendered" (loading = false), leaving
\* is "a router.push away from the page is under way".
NoEditPage == [loaded |-> FALSE, eventId |-> NULL, goingCount |-> 0,
               rsvpCount |-> 0, leaving |-> FALSE]

\* redirectTo is set while the session shows the login page: the event whose
\* page the "redirect" query parameter names.
NoButton == [mounted |-> FALSE, eventId |-> NULL, capacity |-> NoNumber,
             currentGoingCount |-> 0, rsvpType |-> NULL,
             pc |-> "idle", type |-> NULL, existingRSVP |-> 0,
             redirectTo |-> NULL]

\* router.push("/login?redirect=/events/<eventId>"): the session leaves the
\* event page for LoginPage, whose redirectTo is the "redirect" parameter.
LoginPage(e) == [NoButton EXCEPT !.redirectTo = e]

NoToast == [who |-> NULL, msg |-> NULL]
Toast(who, msg) == [who |-> who, msg |-> msg]

----------------------------------------------------------------------------
(* Venue: create an event *)

\* NewEvent that publishes the event without the admin's approval.
NewEventApproved(v, date, hasCapacity, capacity) ==
    [venue_user_id |-> v,
     date |-> date,
     capacity |-> IF hasCapacity THEN Some(capacity) ELSE NoNumber,
     status |-> "approved",
     rejection_reason |-> NULL,
     cancellation_requested |-> FALSE,
     cancellation_reason |-> NULL,
     cancellation_requested_at |-> NULL,
     cancellation_approved_by_admin |-> FALSE,
     cancelled_at |-> NULL]

\* eventData of CreateEventPage.handleSubmit
NewEvent(v, date, hasCapacity, capacity) ==
    [venue_user_id |-> v,
     date |-> date,
     capacity |-> IF hasCapacity THEN Some(capacity) ELSE NoNumber,
     status |-> "pending",
     rejection_reason |-> NULL,
     cancellation_requested |-> FALSE,
     cancellation_reason |-> NULL,
     cancellation_requested_at |-> NULL,
     cancellation_approved_by_admin |-> FALSE,
     cancelled_at |-> NULL]

\* CreateEventPage.handleReviewClick + handleSubmit
CreateEvent(v, e, date, hasCapacity, capacity) ==
    /\ e \notin DOMAIN events
    /\ IF hasCapacity /\ capacity <= 0
       THEN /\ toast' = Toast(v, "Please enter a valid capacity")
            /\ UNCHANGED <<badge, events, rsvps, adminView, editPage, btn>>
       ELSE /\ events' = events @@ (e :> NewEvent(v, date, hasCapacity, capacity))
            /\ toast' = Toast(v, "Event created successfully")
            /\ UNCHANGED <<badge, rsvps, adminView, editPage, btn>>

----------------------------------------------------------------------------
(* Admin *)

\* AdminPage (server component): load or reload of the dashboard
LoadAdminPage(a) ==
    /\ adminView' = [adminView EXCEPT ![a] = RenderAdminPage(events)]
    /\ toast' = NoToast
    /\ UNCHANGED <<badge, events, rsvps, editPage, btn>>

\* the update by id, the success toast, then router.refresh() re-renders
\* the admin's own page
AdminWrite(a, e, newRow, msg) ==
    /\ events' = [events EXCEPT ![e] = newRow]
    /\ adminView' = [adminView EXCEPT ![a] = RenderAdminPage(events')]
    /\ toast' = Toast(a, msg)
    /\ UNCHANGED <<badge, rsvps, editPage, btn>>

\* ApproveRejectButtons.handleApprove
handleApprove(a, e) ==
    /\ e \in adminView[a].pending
    /\ AdminWrite(a, e,
          [events[e] EXCEPT !.status = "approved", !.rejection_reason = NULL],
          "Event approved successfully")

\* handleRejectSubmit that tests the reason as typed, without trim().
handleRejectSubmitUntrimmed(a, e, rejectionReason) ==
    /\ e \in adminView[a].pending
    /\ IF rejectionReason = ""
       THEN /\ toast' = Toast(a, "Please provide a rejection reason")
            /\ UNCHANGED <<badge, events, rsvps, adminView, editPage, btn>>
       ELSE AdminWrite(a, e,
               [events[e] EXCEPT !.status = "rejected",
                                 !.rejection_reason = Trim(rejectionReason)],
               "Event rejected")

\* ApproveRejectButtons.handleRejectSubmit
handleRejectSubmit(a, e, rejectionReason) ==
    /\ e \in adminView[a].pending
    /\ IF Trim(rejectionReason) = ""
       THEN /\ toast' = Toast(a, "Please provide a rejection reason")
            /\ UNCHANGED <<badge, events, rsvps, adminView, editPage, btn>>
       ELSE AdminWrite(a, e,
               [events[e] EXCEPT !.status = "rejected",
                                 !.rejection_reason = Trim(rejectionReason)],
               "Event rejected")

\* handleApproveCancellation that also cancels the RSVPs of the event.
handleApproveCancellationCancelsRsvps(a, e) ==
    /\ e \in adminView[a].cancellationRequests
    /\ events' = [events EXCEPT ![e] =
          [@ EXCEPT !.status = "cancelled",
                    !.cancellation_approved_by_admin = TRUE,
                    !.cancelled_at = "now"]]
    /\ rsvps' = [i \in DOMAIN rsvps |->
          IF rsvps[i].event_id = e
          THEN [rsvps[i] EXCEPT !.status = "cancelled"]
          ELSE rsvps[i]]
    /\ adminView' = [adminView EXCEPT ![a] = RenderAdminPage(events')]
    /\ toast' = Toast(a, "Cancellation approved")
    /\ UNCHANGED <<badge, editPage, btn>>

\* CancellationApprovalButtons.handleApproveCancellation
handleApproveCancellation(a, e) ==
    /\ e \in adminView[a].cancellationRequests
    /\ AdminWrite(a, e,
          [events[e] EXCEPT !.status = "cancelled",
                            !.cancellation_approved_by_admin = TRUE,
                            !.cancelled_at = "now"],
          "Cancellation approved")

\* handleRejectCancellation that resets every cancellation field.
handleRejectCancellationClearsApproval(a, e) ==
    /\ e \in adminView[a].cancellationRequests
    /\ AdminWrite(a, e,
          [events[e] EXCEPT !.cancellation_requested = FALSE,
                            !.cancellation_reason = NULL,
                            !.cancellation_requested_at = NULL,
                            !.cancellation_approved_by_admin = FALSE],
          "Cancellation request rejected")

\* handleRejectCancellation that writes a status as the other handlers do.
handleRejectCancellationWritesStatus(a, e) ==
    /\ e \in adminView[a].cancellationRequests
    /\ AdminWrite(a, e,
          [events[e] EXCEPT !.status = "pending",
                            !.cancellation_requested = FALSE,
                            !.cancellation_reason = NULL,
                            !.cancellation_requested_at = NULL],
          "Cancellation request rejected")

\* CancellationApprovalButtons.handleRejectCancellation
handleRejectCancellation(a, e) ==
    /\ e \in adminView[a].cancellationRequests
    /\ AdminWrite(a, e,
          [events[e] EXCEPT !.cancellation_requested = FALSE,
                            !.cancellation_reason = NULL,
                            !.cancellation_requested_at = NULL],
          "Cancellation request rejected")

----------------------------------------------------------------------------
(* Venue: edit an event, request its cancellation *)

\* loadEventData: .eq("id", eventId).eq("venue_user_id", user.id).single()
OwnsEvent(evs, v, e) == e \in DOMAIN evs /\ evs[e].venue_user_id = v

\* loadEventData: "Check if event is cancelled"
IsCancelled(row) ==
    row.status = "cancelled" \/ row.cancellation_approved_by_admin

\* the state of the edit page that loadEventData leaves. When the event is
\* the venue's and not cancelled: the form with the RSVP counts of the
\* moment. Otherwise the handler raises its toast, calls
\* router.push("/dashboard/events") and returns, and its finally block sets
\* loading to false: the form is rendered with its initial state (counts 0)
\* for the event id of the URL until the navigation completes.
EditPageOf(evs, table, v, e) ==
    IF OwnsEvent(evs, v, e) /\ ~IsCancelled(evs[e])
    THEN [loaded |-> TRUE, eventId |-> e,
          goingCount |-> CountRsvps(table, e, "going"),
          rsvpCount |-> CountRsvps(table, e, "interested")
                          + CountRsvps(table, e, "going"),
          leaving |-> FALSE]
    ELSE [loaded |-> TRUE, eventId |-> e, goingCount |-> 0, rsvpCount |-> 0,
          leaving |-> TRUE]

\* EditEventPage.loadEventData: the venue opens the edit page of an event.
\* The page is shown only to the owner and only while the event is not
\* cancelled; it keeps the RSVP counts read at that moment.
loadEventData(v, e) ==
    /\ editPage' = [editPage EXCEPT ![v] = EditPageOf(events, rsvps, v, e)]
    /\ toast' = IF ~OwnsEvent(events, v, e)
                THEN Toast(v, "Event not found or no permission")
                ELSE IF IsCancelled(events[e])
                THEN Toast(v, "Cannot edit a cancelled event")
                ELSE NoToast
    /\ UNCHANGED <<badge, events, rsvps, adminView, btn>>

\* the navigation started by loadEventData completes: the edit page is
\* replaced by the venue's dashboard
NavigateAway(v) ==
    /\ editPage[v].leaving
    /\ editPage' = [editPage EXCEPT ![v] = NoEditPage]
    /\ toast' = NoToast
    /\ UNCHANGED <<badge, events, rsvps, adminView, btn>>

\* the capacity validation of EditEventPage.handleSubmit
EditCapacityInvalid(hasCapacity, capacity) == hasCapacity /\ capacity < 0

\* "Check if trying to decrease capacity below current RSVPs"
EditCapacityBelowGoing(page, hasCapacity, capacity) ==
    hasCapacity /\ capacity < page.goingCount

\* EditUpdate that sends the edited event back to the admin's review.
EditUpdateResubmits(row, date, hasCapacity, capacity) ==
    [row EXCEPT !.date = date,
                !.capacity = IF hasCapacity THEN Some(capacity) ELSE NoNumber,
                !.status = "pending"]

\* updateData of EditEventPage.handleSubmit
EditUpdate(row, date, hasCapacity, capacity) ==
    [row EXCEPT !.date = date,
                !.capacity = IF hasCapacity THEN Some(capacity) ELSE NoNumber]

\* EditEventPage.handleSubmit: validation, update by id, then leave the page
EditSubmit(v, date, hasCapacity, capacity) ==
    LET page == editPage[v]
        e == page.eventId
    IN /\ page.loaded
       /\ IF EditCapacityInvalid(hasCapacity, capacity)
          THEN /\ toast' = Toast(v, "Please enter a valid capacity")
               /\ UNCHANGED <<badge, events, rsvps, adminView, editPage, btn>>
          ELSE IF EditCapacityBelowGoing(page, hasCapacity, capacity)
          THEN /\ toast' = Toast(v, "Cannot set capacity below current Going count")
               /\ UNCHANGED <<badge, events, rsvps, adminView, editPage, btn>>
          ELSE /\ events' = [x \in DOMAIN events |->
                     IF x = e
                     THEN EditUpdate(events[x], date, hasCapacity, capacity)
                     ELSE events[x]]
               /\ editPage' = [editPage EXCEPT ![v] = NoEditPage]
               /\ toast' = Toast(v, "Event updated successfully")
               /\ UNCHANGED <<badge, rsvps, adminView, btn>>

\* the update of EditEventPage.handleCancelEvent
CancelRequest(row, cancellationReason) ==
    [row EXCEPT !.cancellation_requested = TRUE,
                !.cancellation_reason = Trim(cancellationReason),
                !.cancellation_requested_at = "now"]

\* handleCancelEvent that tests the reason as typed, without trim().
handleCancelEventUntrimmed(v, cancellationReason) ==
    LET page == editPage[v]
        e == page.eventId
    IN /\ page.loaded
       /\ page.rsvpCount > 0
       /\ IF cancellationReason = ""
          THEN /\ toast' = Toast(v, "Please provide a cancellation reason")
               /\ UNCHANGED <<badge, events, rsvps, adminView, editPage, btn>>
          ELSE /\ events' = [events EXCEPT ![e] =
                     CancelRequest(@, cancellationReason)]
               /\ editPage' = [editPage EXCEPT ![v] = NoEditPage]
               /\ toast' = Toast(v, "Cancellation request submitted")
               /\ UNCHANGED <<badge, rsvps, adminView, btn>>

\* EditEventPage.handleCancelEvent; the modal it is called from opens only
\* from the "Request Event Cancellation" button, rendered when rsvpCount > 0
handleCancelEvent(v, cancellationReason) ==
    LET page == editPage[v]
        e == page.eventId
    IN /\ page.loaded
       /\ page.rsvpCount > 0
       /\ IF Trim(cancellationReason) = ""
          THEN /\ toast' = Toast(v, "Please provide a cancellation reason")
               /\ UNCHANGED <<badge, events, rsvps, adminView, editPage, btn>>
          ELSE /\ events' = [events EXCEPT ![e] =
                     CancelRequest(@, cancellationReason)]
               /\ editPage' = [editPage EXCEPT ![v] = NoEditPage]
               /\ toast' = Toast(v, "Cancellation request submitted")
               /\ UNCHANGED <<badge, rsvps, adminView, btn>>

----------------------------------------------------------------------------
(* Attendee: the RSVP button *)

\* What the event page passes to RSVPButton when it renders event e;
\* notFound() when the event is not approved. The component keeps its own
\* state (rsvpType) across a re-render.
RenderButton(evs, table, e, old) ==
    IF EventDetailQuery(evs, e) = {}
    THEN NoButton
    ELSE [old EXCEPT !.mounted = TRUE,
                     !.eventId = e,
                     !.capacity = evs[e].capacity,
                     !.currentGoingCount = CountRsvps(table, e, "going")]

\* the user's active RSVP as the page reads it with .single()
CurrentRSVP(table, u, e) ==
    LET id == Single(ActiveRows(table, u, e))
    IN IF u = Guest \/ id = 0 THEN NULL ELSE table[id].rsvp_type

\* EventDetailPage: the page is opened; useState(currentRSVP || null)
LoadEventPage(s, e) ==
    /\ btn[s].pc = "idle"
    /\ btn' = [btn EXCEPT ![s] =
          RenderButton(events, rsvps, e,
              [NoButton EXCEPT
                  !.rsvpType = CurrentRSVP(rsvps, SessionUser[s], e)])]
    /\ toast' = NoToast
    /\ UNCHANGED <<badge, events, rsvps, adminView, editPage>>

\* "Check if at capacity for Going"
isAtCapacity(b) ==
    IsSet(b.capacity) /\ b.currentGoingCount >= ValueOf(b.capacity)

\* the buttons are disabled while loading; the Going button also when the
\* page shows the event at capacity and the user is not shown as going
ButtonEnabled(b, type) ==
    /\ b.mounted
    /\ b.pc = "idle"
    /\ ~(type = "going" /\ isAtCapacity(b) /\ b.rsvpType # "going")

\* CapacityExceeded that applies the capacity to both types of RSVP.
CapacityExceededAnyType(b, type) ==
    /\ IsSet(b.capacity)
    /\ b.currentGoingCount >= ValueOf(b.capacity)

\* "Check capacity for Going RSVP"
CapacityExceeded(b, type) ==
    /\ type = "going"
    /\ IsSet(b.capacity)
    /\ b.currentGoingCount >= ValueOf(b.capacity)

\* "If clicking the same button, cancel RSVP"
IsToggleOff(b, type) == b.rsvpType = type

\* CancelRows without the filter on user_id.
CancelRowsOfEvent(table, u, e) ==
    [i \in DOMAIN table |->
        IF table[i].event_id = e
        THEN [table[i] EXCEPT !.status = "cancelled"]
        ELSE table[i]]

\* .update({ status: "cancelled" }).eq("user_id", ..).eq("event_id", ..)
CancelRows(table, u, e) ==
    [i \in DOMAIN table |->
        IF table[i].user_id = u /\ table[i].event_id = e
        THEN [table[i] EXCEPT !.status = "cancelled"]
        ELSE table[i]]

\* .select("*").eq("user_id", ..).eq("event_id", ..).eq("status", "active")
\* .single()
FindExisting(table, u, e) == Single(ActiveRows(table, u, e))

\* .update({ rsvp_type: type }).eq("id", existingRSVP.id)
UpdateType(table, id, type) == [table EXCEPT ![id].rsvp_type = type]

\* InsertRow as an upsert: a row the user already has for the event is made
\* active again instead of a new row being added.
InsertRowReactivates(table, u, e, type) ==
    LET mine == {i \in DOMAIN table :
                    table[i].user_id = u /\ table[i].event_id = e}
    IN IF mine = {}
       THEN Append(table, [user_id |-> u, event_id |-> e,
                           rsvp_type |-> type, status |-> "active"])
       ELSE [table EXCEPT ![CHOOSE i \in mine : TRUE] =
                [@ EXCEPT !.rsvp_type = type, !.status = "active"]]

\* .insert({ user_id, event_id, rsvp_type: type, status: "active" })
InsertRow(table, u, e, type) ==
    Append(table, [user_id |-> u, event_id |-> e,
                   rsvp_type |-> type, status |-> "active"])

\* BeginRSVP with the capacity check moved in front of the authentication.
BeginRSVPCapacityFirst(evs, table, b, u, type) ==
    IF CapacityExceeded(b, type)
    THEN [rsvps |-> table, btn |-> b, msg |-> "full capacity"]
    ELSE IF u = Guest
    THEN [rsvps |-> table, btn |-> LoginPage(b.eventId),
          msg |-> "Please login to RSVP"]
    ELSE IF IsToggleOff(b, type)
    THEN LET t == CancelRows(table, u, b.eventId)
         IN [rsvps |-> t,
             btn |-> RenderButton(evs, t, b.eventId, [b EXCEPT !.rsvpType = NULL]),
             msg |-> "RSVP cancelled"]
    ELSE [rsvps |-> table,
          btn |-> [b EXCEPT !.pc = "fetch", !.type = type],
          msg |-> NULL]

\* handleRSVP(type) in the session of user u with button state b, up to and
\* including its first write: authentication, capacity check, toggle-off.
\* The result is the table, the button and the toast it leaves.
BeginRSVP(evs, table, b, u, type) ==
    IF u = Guest
    THEN [rsvps |-> table, btn |-> LoginPage(b.eventId),
          msg |-> "Please login to RSVP"]
    ELSE IF CapacityExceeded(b, type)
    THEN [rsvps |-> table, btn |-> b, msg |-> "full capacity"]
    ELSE IF IsToggleOff(b, type)
    THEN LET t == CancelRows(table, u, b.eventId)
         IN [rsvps |-> t,
             btn |-> RenderButton(evs, t, b.eventId, [b EXCEPT !.rsvpType = NULL]),
             msg |-> "RSVP cancelled"]
    ELSE [rsvps |-> table,
          btn |-> [b EXCEPT !.pc = "fetch", !.type = type],
          msg |-> NULL]

\* handleRSVP: "Check if user already has an RSVP"
FetchRSVP(table, b, u) ==
    [b EXCEPT !.pc = "write",
              !.existingRSVP = FindExisting(table, u, b.eventId)]

\* FinishRSVP without setRsvpType(type).
FinishRSVPKeepsType(evs, table, b, u) ==
    LET done == [b EXCEPT !.pc = "idle", !.type = NULL, !.existingRSVP = 0]
        t == IF b.existingRSVP # 0
             THEN UpdateType(table, b.existingRSVP, b.type)
             ELSE InsertRow(table, u, b.eventId, b.type)
    IN [rsvps |-> t,
        btn |-> RenderButton(evs, t, b.eventId, done),
        msg |-> IF b.existingRSVP # 0 THEN "Changed to" ELSE "Marked as"]

\* FinishRSVP that reads the going count again and writes a "going" RSVP
\* only while the event is below its capacity.
FinishRSVPRechecked(evs, table, b, u) ==
    LET done == [b EXCEPT !.rsvpType = b.type,
                          !.pc = "idle", !.type = NULL, !.existingRSVP = 0]
        full == /\ b.type = "going"
                /\ IsSet(evs[b.eventId].capacity)
                /\ CountRsvps(table, b.eventId, "going")
                      >= ValueOf(evs[b.eventId].capacity)
        t == IF b.existingRSVP # 0
             THEN UpdateType(table, b.existingRSVP, b.type)
             ELSE InsertRow(table, u, b.eventId, b.type)
    IN IF full
       THEN [rsvps |-> table,
             btn |-> RenderButton(evs, table, b.eventId,
                        [b EXCEPT !.pc = "idle", !.type = NULL,
                                  !.existingRSVP = 0]),
             msg |-> "full capacity"]
       ELSE [rsvps |-> t,
             btn |-> RenderButton(evs, t, b.eventId, done),
             msg |-> IF b.existingRSVP # 0 THEN "Changed to" ELSE "Marked as"]

\* handleRSVP: update the row that was found, or insert a new one; then
\* setRsvpType(type) and router.refresh()
FinishRSVP(evs, table, b, u) ==
    LET done == [b EXCEPT !.rsvpType = b.type,
                          !.pc = "idle", !.type = NULL, !.existingRSVP = 0]
        t == IF b.existingRSVP # 0
             THEN UpdateType(table, b.existingRSVP, b.type)
             ELSE InsertRow(table, u, b.eventId, b.type)
    IN [rsvps |-> t,
        btn |-> RenderButton(evs, t, b.eventId, done),
        msg |-> IF b.existingRSVP # 0 THEN "Changed to" ELSE "Marked as"]

\* a whole call of handleRSVP that no other call overlaps
CompleteRSVP(evs, table, b, u, type) ==
    LET r == BeginRSVP(evs, table, b, u, type)
    IN IF r.btn.pc = "fetch"
       THEN FinishRSVP(evs, r.rsvps, FetchRSVP(r.rsvps, r.btn, u), u)
       ELSE r

\* calls of handleRSVP that have passed the checks and not yet written
InFlight == {t \in Sessions : btn[t].pc # "idle"}

\* RSVPButton.handleRSVP: the click and the first part of the handler
handleRSVP(s, type) ==
    LET r == BeginRSVP(events, rsvps, btn[s], SessionUser[s], type)
    IN /\ ButtonEnabled(btn[s], type)
       /\ r.btn.pc = "fetch" => Len(rsvps) + Cardinality(InFlight) < MaxRows
       /\ rsvps' = r.rsvps
       /\ btn' = [btn EXCEPT ![s] = r.btn]
       /\ toast' = IF r.msg = NULL THEN NoToast ELSE Toast(s, r.msg)
       /\ UNCHANGED <<badge, events, adminView, editPage>>

\* RSVPButton.handleRSVP: the select of the existing RSVP
FetchExisting(s) ==
    /\ btn[s].pc = "fetch"
    /\ btn' = [btn EXCEPT ![s] = FetchRSVP(rsvps, btn[s], SessionUser[s])]
    /\ toast' = NoToast
    /\ UNCHANGED <<badge, events, rsvps, adminView, editPage>>

\* RSVPButton.handleRSVP: the update or insert, and what follows it
WriteRSVP(s) ==
    LET r == FinishRSVP(events, rsvps, btn[s], SessionUser[s])
    IN /\ btn[s].pc = "write"
       /\ rsvps' = r.rsvps
       /\ btn' = [btn EXCEPT ![s] = r.btn]
       /\ toast' = Toast(s, r.msg)
       /\ UNCHANGED <<badge, events, adminView, editPage>>

\* RSVPButton.handleRSVP: the cancel update of the toggle-off fails; catch
\* and finally
ToggleFailure(s, type) ==
    /\ ButtonEnabled(btn[s], type)
    /\ SessionUser[s] # Guest
    /\ ~CapacityExceeded(btn[s], type)
    /\ IsToggleOff(btn[s], type)
    /\ toast' = Toast(s, "Failed to update RSVP")
    /\ UNCHANGED <<badge, events, rsvps, adminView, editPage, btn>>

\* RSVPButton.handleRSVP: the select, the update or the insert fails; catch
\* and finally
StoreFailure(s) ==
    /\ btn[s].pc \in {"fetch", "write"}
    /\ btn' = [btn EXCEPT ![s].pc = "idle", ![s].type = NULL,
                          ![s].existingRSVP = 0]
    /\ toast' = Toast(s, "Failed to update RSVP")
    /\ UNCHANGED <<badge, events, rsvps, adminView, editPage>>

----------------------------------------------------------------------------
(* The system *)

\* nothing has been created and no page is open
Init ==
    /\ events = << >>
    /\ rsvps = << >>
    /\ adminView = [a \in Admins |-> RenderAdminPage(<< >>)]
    /\ editPage = [v \in Venues |-> NoEditPage]
    /\ btn = [s \in Sessions |-> NoButton]
    /\ toast = NoToast
    /\ badge = NoBadge

\* the venue users V on the edit page
VenueEditStep(V) ==
    \/ \E v \in V, e \in EventIds : loadEventData(v, e)
    \/ \E v \in V, date \in Dates,
          hasCapacity \in BOOLEAN, capacity \in CapacityInputs :
          EditSubmit(v, date, hasCapacity, capacity)
    \/ \E v \in V, reason \in ReasonInputs : handleCancelEvent(v, reason)
    \/ \E v \in V : NavigateAway(v)

\* the venue that owns the event: it submits it and works on its edit page
VenueStep ==
    \/ \E v \in Creators, e \in EventIds, date \in Dates,
          hasCapacity \in BOOLEAN, capacity \in CapacityInputs :
          CreateEvent(v, e, date, hasCapacity, capacity)
    \/ VenueEditStep(Creators)

AdminStep ==
    \/ \E a \in Admins : LoadAdminPage(a)
    \/ \E a \in Admins, e \in EventIds : handleApprove(a, e)
    \/ \E a \in Admins, e \in EventIds, reason \in ReasonInputs :
          handleRejectSubmit(a, e, reason)
    \/ \E a \in Admins, e \in EventIds : handleApproveCancellation(a, e)
    \/ \E a \in Admins, e \in EventIds : handleRejectCancellation(a, e)

AttendeeStep(S) ==
    \/ \E s \in S, e \in EventIds : LoadEventPage(s, e)
    \/ \E s \in S, type \in RsvpTypes : handleRSVP(s, type)
    \/ \E s \in S, type \in RsvpTypes : ToggleFailure(s, type)
    \/ \E s \in S : FetchExisting(s)
    \/ \E s \in S : WriteRSVP(s)
    \/ \E s \in S : StoreFailure(s)

\* The whole system: the owning venue, two admins and one attendee session
\* acting on the event in any order.
MainSessions == {"s3"}
Next == VenueStep \/ AdminStep \/ AttendeeStep(MainSessions)
Spec == Init /\ [][Next]_vars

\* The RSVP button on an event that a venue created and an admin approved.
InitRsvp ==
    /\ \E hasCapacity \in BOOLEAN, capacity \in 1..MaxCapacity :
          events = [e \in EventIds |->
              [NewEvent("venue1", 1, hasCapacity, capacity)
                  EXCEPT !.status = "approved"]]
    /\ rsvps = << >>
    /\ adminView = [a \in Admins |-> RenderAdminPage(<< >>)]
    /\ editPage = [v \in Venues |-> NoEditPage]
    /\ btn = [s \in Sessions |-> NoButton]
    /\ toast = NoToast
    /\ badge = NoBadge

\* Calls of handleRSVP from several sessions, their steps interleaved.
RsvpSessions == {"s1", "s2", "s3"}
NextRsvp == AttendeeStep(RsvpSessions)
SpecRsvp == InitRsvp /\ [][NextRsvp]_vars

\* Calls of handleRSVP that do not overlap: a call starts only when no
\* other call is under way.
handleRSVPAlone(s, type) == InFlight = {} /\ handleRSVP(s, type)

ToggleFailureAlone(s, type) == InFlight = {} /\ ToggleFailure(s, type)

NextSeq ==
    \/ \E s \in Sessions, e \in EventIds : LoadEventPage(s, e)
    \/ \E s \in Sessions, type \in RsvpTypes : handleRSVPAlone(s, type)
    \/ \E s \in Sessions, type \in RsvpTypes : ToggleFailureAlone(s, type)
    \/ \E s \in Sessions : FetchExisting(s)
    \/ \E s \in Sessions : WriteRSVP(s)
    \/ \E s \in Sessions : StoreFailure(s)
SpecSeq == InitRsvp /\ [][NextSeq]_vars

\* An approved event that u1 has an RSVP for and whose page u1 has open;
\* adminA approved it, adminB still has the dashboard loaded before that.
InitLive ==
    /\ \E hasCapacity \in BOOLEAN, capacity \in 1..MaxCapacity :
          events = [e \in EventIds |->
              [NewEvent("venue1", 1, hasCapacity, capacity)
                  EXCEPT !.status = "approved"]]
    /\ \E type \in RsvpTypes : rsvps = InsertRow(<< >>, "u1", "e1", type)
    /\ adminView = [a \in Admins |->
          IF a = "adminA" THEN RenderAdminPage(events)
          ELSE [pending |-> EventIds, cancellationRequests |-> {}]]
    /\ editPage = [v \in Venues |-> NoEditPage]
    /\ btn = [s \in Sessions |->
          IF s = "s1"
          THEN RenderButton(events, rsvps, "e1",
                  [NoButton EXCEPT !.rsvpType = CurrentRSVP(rsvps, "u1", "e1")])
          ELSE NoButton]
    /\ toast = NoToast
    /\ badge = NoBadge

\* The owning venue, both admins and the attendee u2 acting on it.
LiveSessions == {"s3"}
NextLive ==
    VenueEditStep(Creators) \/ AdminStep \/ AttendeeStep(LiveSessions)
SpecLive == InitLive /\ [][NextLive]_vars

\* Both venue users, the owner and the other one, and both admins acting
\* on it.
NextOwner == VenueEditStep(Venues) \/ AdminStep
SpecOwner == InitLive /\ [][NextOwner]_vars

\* Event cards of every age rendering their badge.
InitTime ==
    /\ events = << >>
    /\ rsvps = << >>
    /\ adminView = [a \in Admins |-> RenderAdminPage(<< >>)]
    /\ editPage = [v \in Venues |-> NoEditPage]
    /\ btn = [s \in Sessions |-> NoButton]
    /\ toast = NoToast
    /\ \E seconds \in ElapsedInputs : badge = CardOf(seconds)

NextTime == RenderBadge
SpecTime == InitTime /\ [][NextTime]_vars

----------------------------------------------------------------------------
(* Properties *)

\* The transition graph of the event status.
StatusGraph ==
    {<<"pending", "approved">>, <<"pending", "rejected">>,
     <<"approved", "cancelled">>}

\* C1: whatever the venue and the admins do, also from dashboard views
\* loaded before an earlier action, the status of an event changes only
\* along pending->approved, pending->rejected and approved->cancelled.
C1_StatusOnlyMovesForward ==
    [][\A e \in DOMAIN events :
          events'[e].status # events[e].status
              => <<events[e].status, events'[e].status>> \in StatusGraph]_vars

\* C2: when the calls of handleRSVP do not overlap, the active "going"
\* rows of an event with a capacity never outnumber the capacity, whatever
\* snapshot of the going count each caller's button holds.
C2_GoingCountWithinCapacity ==
    \A e \in DOMAIN events :
        (IsSet(events[e].capacity) /\ InFlight = {})
            => GoingCount(e) <= ValueOf(events[e].capacity)

\* C3: a user has at most one active RSVP row per event, also when the
\* calls of two sessions of that user interleave.
C3_OneActiveRsvpPerUserAndEvent ==
    \A u \in Attendees, e \in DOMAIN events :
        Cardinality(ActiveRows(rsvps, u, e)) <= 1

\* the user's only active RSVP for the event is of this type
HasActive(table, u, e, type) ==
    /\ Cardinality(ActiveRows(table, u, e)) = 1
    /\ \A i \in ActiveRows(table, u, e) : table[i].rsvp_type = type

\* C4: a user whose active RSVP is "going" and who clicks Going on an event
\* that is at capacity is not rejected by the capacity check: the RSVP is
\* toggled off (the row is cancelled, the going count drops by one).
C4_GoingUserExemptFromCapacity ==
    [][\A s \in Sessions :
          LET u == SessionUser[s]
              e == btn[s].eventId
          IN (/\ handleRSVP(s, "going")
              /\ HasActive(rsvps, u, e, "going")
              /\ IsSet(events[e].capacity)
              /\ GoingCount(e) >= ValueOf(events[e].capacity))
             => /\ toast'.msg # "full capacity"
                /\ ActiveRows(rsvps', u, e) = {}
                /\ CountRsvps(rsvps', e, "going") = GoingCount(e) - 1]_vars

\* C5: approving the cancellation of an event whose cancellation is not
\* requested changes nothing, and an event becomes cancelled only from a
\* state where the cancellation is requested and not yet approved, also when
\* the admin acts from a view loaded before the request was rejected.
C5_CancelledOnlyOnRequest ==
    [][\A e \in DOMAIN events :
          /\ (\E a \in Admins : handleApproveCancellation(a, e))
                /\ ~events[e].cancellation_requested
             => events'[e] = events[e]
          /\ events'[e].status = "cancelled" /\ events[e].status # "cancelled"
             => /\ events[e].cancellation_requested
                /\ ~events[e].cancellation_approved_by_admin]_vars

\* C6: an Edit that sets the capacity below the number of active "going"
\* RSVPs the event has when it is submitted writes nothing.
C6_EditBelowGoingCountRejected ==
    [][\A v \in Venues, date \in Dates, capacity \in CapacityInputs :
          (/\ EditSubmit(v, date, TRUE, capacity)
           /\ capacity < GoingCount(editPage[v].eventId))
          => events' = events]_vars

\* C7: once an event is cancelled no Edit changes its content or its
\* capacity, also when the edit page was loaded while it was approved.
C7_CancelledEventNotEdited ==
    [][\A e \in DOMAIN events :
          events[e].status = "cancelled"
              => /\ events'[e].date = events[e].date
                 /\ events'[e].capacity = events[e].capacity]_vars

\* C8: a cancelled event is still returned by the public listing (while it
\* is not past) and by the event detail page, and is shown in a section of
\* its venue's dashboard.
C8_CancelledEventStaysVisible ==
    \A e \in DOMAIN events :
        events[e].status = "cancelled"
            => /\ e \in EventDetailQuery(events, e)
               /\ \A today \in Dates :
                     /\ events[e].date >= today
                           => e \in EventsPageQuery(events, today)
                     /\ LET sec == VenueSections(events, events[e].venue_user_id, today)
                        IN e \in sec.upcoming \cup sec.past
                                 \cup sec.pending \cup sec.rejected

\* the number of active rows per user and type for an event
ActiveView(table, e) ==
    [u \in Attendees, type \in RsvpTypes |->
        Cardinality({i \in ActiveRows(table, u, e) : table[i].rsvp_type = type})]

\* C9: two calls of handleRSVP with the same type, one after the other from
\* the same session and with nothing in between, leave the interested count,
\* the going count and the user's active RSVP as they were.
C9_ToggleTwiceRestores ==
    \A s \in Sessions, type \in RsvpTypes :
        LET u == SessionUser[s]
            e == btn[s].eventId
            r1 == CompleteRSVP(events, rsvps, btn[s], u, type)
            r2 == CompleteRSVP(events, r1.rsvps, r1.btn, u, type)
        IN (/\ InFlight = {}
            /\ ButtonEnabled(btn[s], type)
            /\ ButtonEnabled(r1.btn, type))
           => ActiveView(r2.rsvps, e) = ActiveView(rsvps, e)

\* C10: when a user with an active "interested" RSVP calls handleRSVP(going)
\* on an event below capacity, that row changes type in place (no row is
\* added), and a following handleRSVP(going) cancels it: the going count is
\* one higher after the first call and back after the second.
C10_InterestedToGoingToNone ==
    \A s \in Sessions :
        LET u == SessionUser[s]
            e == btn[s].eventId
            r1 == CompleteRSVP(events, rsvps, btn[s], u, "going")
            r2 == CompleteRSVP(events, r1.rsvps, r1.btn, u, "going")
        IN (/\ InFlight = {}
            /\ ButtonEnabled(btn[s], "going")
            /\ btn[s].rsvpType = "interested"
            /\ HasActive(rsvps, u, e, "interested")
            /\ IsSet(events[e].capacity)
                  => GoingCount(e) < ValueOf(events[e].capacity))
           => /\ Len(r1.rsvps) = Len(rsvps)
              /\ ActiveRows(r1.rsvps, u, e) = ActiveRows(rsvps, u, e)
              /\ HasActive(r1.rsvps, u, e, "going")
              /\ CountRsvps(r1.rsvps, e, "interested") = InterestedCount(e) - 1
              /\ CountRsvps(r1.rsvps, e, "going") = GoingCount(e) + 1
              /\ ActiveRows(r2.rsvps, u, e) = {}
              /\ CountRsvps(r2.rsvps, e, "going") = GoingCount(e)

\* an active "going" row of the user for the event
IsGoing(table, u, e) ==
    \E i \in ActiveRows(table, u, e) : table[i].rsvp_type = "going"

\* two calls of handleRSVP("going") by different users for the same event,
\* both past the capacity check and the select (which found no RSVP of the
\* caller), neither having written, while the event is one below capacity
BothPastCapacityCheck(s, t) ==
    LET e == btn[s].eventId
    IN /\ SessionUser[s] # SessionUser[t]
       /\ btn[s].pc = "write" /\ btn[t].pc = "write"
       /\ btn[s].type = "going" /\ btn[t].type = "going"
       /\ btn[s].existingRSVP = 0 /\ btn[t].existingRSVP = 0
       /\ btn[t].eventId = e
       /\ IsSet(events[e].capacity)
       /\ GoingCount(e) = ValueOf(events[e].capacity) - 1

\* C11: the capacity check is not atomic with the write. When two calls of
\* handleRSVP("going") by different users have both passed the capacity
\* check before either has written, on an event whose going count is one
\* below its capacity, the two writes both succeed: both users end with an
\* active "going" row and the going count is capacity + 1.
C11_CapacityCheckNotAtomic ==
    \A s, t \in Sessions :
        BothPastCapacityCheck(s, t) =>
            LET e == btn[s].eventId
                r1 == FinishRSVP(events, rsvps, btn[s], SessionUser[s])
                r2 == FinishRSVP(events, r1.rsvps, btn[t], SessionUser[t])
            IN /\ r1.msg = "Marked as" /\ r2.msg = "Marked as"
               /\ IsGoing(r2.rsvps, SessionUser[s], e)
               /\ IsGoing(r2.rsvps, SessionUser[t], e)
               /\ CountRsvps(r2.rsvps, e, "going")
                     = ValueOf(events[e].capacity) + 1

\* C11 witness: two users' calls have both passed the capacity check of an
\* event with one place left, and neither has written yet.
C11_Witness == \E s, t \in Sessions : BothPastCapacityCheck(s, t)

\* C12: handleRSVP in a session without a user writes nothing to rsvps and
\* ends with the "Please login to RSVP" notification and the login page whose
\* return target is the event's page, never with the capacity or the store
\* failure notification; this also when the button shows the event at
\* capacity, the authentication being checked before the capacity.
C12_GuestIsRedirectedToLogin ==
    [][\A s \in Sessions, type \in RsvpTypes :
          (SessionUser[s] = Guest /\ btn[s].mounted) =>
              LET r == CompleteRSVP(events, rsvps, btn[s], Guest, type)
              IN /\ r.rsvps = rsvps
                 /\ r.msg = "Please login to RSVP"
                 /\ r.msg \notin {"full capacity", "Failed to update RSVP"}
                 /\ r.btn = LoginPage(btn[s].eventId)
                 /\ handleRSVP(s, type) =>
                       /\ rsvps' = rsvps
                       /\ toast' = Toast(s, "Please login to RSVP")
                       /\ btn'[s].redirectTo = btn[s].eventId
                       /\ ~btn'[s].mounted]_vars

\* C12 witness: a guest has clicked on the page of an event that is at
\* capacity and is now on the login page that returns to the event.
C12_Witness ==
    /\ toast = Toast("s4", "Please login to RSVP")
    /\ btn["s4"].redirectTo = "e1"
    /\ IsSet(events["e1"].capacity)
    /\ GoingCount("e1") >= ValueOf(events["e1"].capacity)

\* C13: Reject-cancellation clears cancellation_requested,
\* cancellation_reason and cancellation_requested_at and changes no other
\* field of the event, no other event and no RSVP. When the request it
\* rejects is open, the event keeps its status (approved stays approved),
\* the owner's edit page loads again, and with RSVPs on the event a new
\* request can be submitted from it.
C13_RejectCancellationFrame ==
    [][\A a \in Admins, e \in DOMAIN events :
          handleRejectCancellation(a, e) =>
              LET v == events[e].venue_user_id
                  page == EditPageOf(events', rsvps', v, e)
              IN /\ events' = [events EXCEPT ![e] =
                       [@ EXCEPT !.cancellation_requested = FALSE,
                                 !.cancellation_reason = NULL,
                                 !.cancellation_requested_at = NULL]]
                 /\ events'[e].status = events[e].status
                 /\ rsvps' = rsvps
                 /\ e \in RenderAdminPage(events).cancellationRequests =>
                       /\ ~IsCancelled(events'[e])
                       /\ page.loaded /\ ~page.leaving /\ page.eventId = e
                       /\ page.rsvpCount = InterestedCount(e) + GoingCount(e)
                       /\ e \notin adminView'[a].cancellationRequests
                       /\ \A reason \in ReasonInputs :
                             LET row == CancelRequest(events'[e], reason)
                             IN /\ row.cancellation_requested
                                /\ row.status = events[e].status]_vars

\* C13 witness: an admin has just rejected the cancellation request of an
\* approved event that has RSVPs.
C13_Witness ==
    /\ toast.msg = "Cancellation request rejected"
    /\ events["e1"].status = "approved"
    /\ ~events["e1"].cancellation_requested
    /\ events["e1"].cancellation_reason = NULL
    /\ InterestedCount("e1") + GoingCount("e1") > 0

\* C14: no action on the events table (Submit, Approve, Reject, Edit,
\* Request-cancellation, Approve-cancellation, Reject-cancellation) changes
\* a row of rsvps: the RSVPs of a cancelled event keep type and status.
C14_EventActionsLeaveRsvps ==
    [][rsvps' # rsvps => ~(events' # events \/ VenueStep \/ AdminStep)]_vars

\* C14 witness: a cancellation has just been approved and the event still
\* has an active RSVP.
C14_Witness ==
    /\ toast.msg = "Cancellation approved"
    /\ events["e1"].status = "cancelled"
    /\ InterestedCount("e1") + GoingCount("e1") > 0

\* C15: Edit and Request-cancellation leave the status of every event as it
\* is (an edited rejected event stays rejected), and a step that changes the
\* status of an existing event is an admin's Approve, Reject or
\* Approve-cancellation of that event.
C15_VenueNeverWritesStatus ==
    [][\A e \in DOMAIN events :
          events'[e].status # events[e].status =>
              /\ ~\E v \in Venues, date \in Dates, hasCapacity \in BOOLEAN,
                     capacity \in CapacityInputs :
                     EditSubmit(v, date, hasCapacity, capacity)
              /\ ~\E v \in Venues, reason \in ReasonInputs :
                     handleCancelEvent(v, reason)
              /\ \E a \in Admins :
                    \/ handleApprove(a, e)
                    \/ \E reason \in ReasonInputs :
                          handleRejectSubmit(a, e, reason)
                    \/ handleApproveCancellation(a, e)]_vars

\* C15 witness: the venue has just edited a rejected event (its date is no
\* longer the one it was rejected with) and the event is still rejected.
C15_Witness ==
    /\ toast.msg = "Event updated successfully"
    /\ "e1" \in DOMAIN events
    /\ events["e1"].status = "rejected"

C17_InterestedIsUnlimited ==
    \A s \in Sessions :
        (SessionUser[s] # Guest /\ btn[s].mounted /\ btn[s].pc = "idle") =>
            LET r == CompleteRSVP(events, rsvps, btn[s], SessionUser[s],
                                  "interested")
            IN /\ ButtonEnabled(btn[s], "interested")
               /\ ~CapacityExceeded(btn[s], "interested")
               /\ r.msg \in {"RSVP cancelled", "Changed to", "Marked as"}

\* C17 witness: u2 has just been marked "interested" in an event of capacity
\* one whose place was already taken by u1.
C17_Witness ==
    /\ toast = Toast("s3", "Marked as")
    /\ events["e1"].capacity = Some(1)
    /\ Len(rsvps) = 2
    /\ rsvps[1] = [user_id |-> "u1", event_id |-> "e1",
                   rsvp_type |-> "going", status |-> "active"]
    /\ rsvps[2] = [user_id |-> "u2", event_id |-> "e1",
                   rsvp_type |-> "interested", status |-> "active"]
    /\ isAtCapacity(btn["s3"])

\* C18: the capacity of every event is null or at least 1.
C18_CapacityNullOrPositive ==
    \A e \in DOMAIN events :
        IsSet(events[e].capacity) => ValueOf(events[e].capacity) >= 1

\* C19: an event has a rejection_reason only while its status is "rejected".
C19_RejectionReasonOnlyWhenRejected ==
    \A e \in DOMAIN events :
        events[e].rejection_reason # NULL => events[e].status = "rejected"

\* C20: Reject with an empty or whitespace-only reason writes nothing, and
\* every event with status "rejected" has a rejection_reason that is not
\* null and not empty after trim().
C20_RejectedHasReason ==
    [][/\ \A a \in Admins, e \in DOMAIN events, reason \in ReasonInputs :
             (Trim(reason) = "" /\ handleRejectSubmit(a, e, reason))
                 => /\ events' = events
                    /\ rsvps' = rsvps
                    /\ toast'.msg = "Please provide a rejection reason"
       /\ \A e \in DOMAIN events' :
             events'[e].status = "rejected"
                 => /\ events'[e].rejection_reason # NULL
                    /\ Trim(events'[e].rejection_reason) # ""]_vars

\* C20 witness: an admin has submitted a blank reason for an event that the
\* other admin had rejected with the reason "late"; the reason is kept.
C20_Witness ==
    /\ toast.msg = "Please provide a rejection reason"
    /\ events["e1"].status = "rejected"
    /\ events["e1"].rejection_reason = "late"

\* C21: Request-cancellation with an empty or whitespace-only reason writes
\* nothing, and in every state cancellation_requested, a non-empty
\* cancellation_reason and a non-null cancellation_requested_at are present
\* together or absent together.
C21_CancellationFieldsTogether ==
    [][/\ \A v \in Venues, reason \in ReasonInputs :
             (Trim(reason) = "" /\ handleCancelEvent(v, reason))
                 => /\ events' = events
                    /\ toast'.msg = "Please provide a cancellation reason"
       /\ \A e \in DOMAIN events' :
             LET row == events'[e]
             IN IF row.cancellation_requested
                THEN /\ row.cancellation_reason # NULL
                     /\ Trim(row.cancellation_reason) # ""
                     /\ row.cancellation_requested_at # NULL
                ELSE /\ row.cancellation_reason = NULL
                     /\ row.cancellation_requested_at = NULL]_vars

\* C21 witness: the venue has submitted a blank reason from the edit page of
\* an event whose cancellation is already requested; the request is kept.
C21_Witness ==
    /\ toast.msg = "Please provide a cancellation reason"
    /\ events["e1"].cancellation_requested
    /\ events["e1"].cancellation_reason = "late"

\* C22: cancellation_requested becomes true only on an event whose status
\* is "approved".
C22_RequestOnlyWhenApproved ==
    [][\A e \in DOMAIN events :
          (~events[e].cancellation_requested
              /\ events'[e].cancellation_requested)
          => events[e].status = "approved"]_vars

\* C23: a step that changes the rsvps table is a handleRSVP call of an
\* attendee, never a venue's or an admin's action; it changes only rows of
\* that attendee, adds only rows of that attendee and removes none.
C23_RsvpsWrittenByTheirAttendee ==
    [][rsvps' # rsvps =>
          /\ events' = events
          /\ ~(VenueEditStep(Venues) \/ AdminStep)
          /\ \E s \in Sessions :
                /\ (\E type \in RsvpTypes : handleRSVP(s, type)) \/ WriteRSVP(s)
                /\ Len(rsvps') >= Len(rsvps)
                /\ \A i \in DOMAIN rsvps :
                      rsvps'[i] # rsvps[i] =>
                          /\ rsvps[i].user_id = SessionUser[s]
                          /\ rsvps'[i].user_id = SessionUser[s]
                /\ \A i \in DOMAIN rsvps' \ DOMAIN rsvps :
                      rsvps'[i].user_id = SessionUser[s]]_vars

\* C23 witness: u2 has toggled off an RSVP on the event that u1 has an
\* active RSVP for, after the venue asked for the cancellation of the event.
C23_Witness ==
    /\ toast = Toast("s3", "RSVP cancelled")
    /\ Len(rsvps) = 2
    /\ rsvps[1].user_id = "u1" /\ rsvps[1].status = "active"
    /\ rsvps[2].user_id = "u2" /\ rsvps[2].status = "cancelled"
    /\ events["e1"].cancellation_requested

\* C24: no step of a venue user who does not own an event (Edit or
\* Request-cancellation) changes a field of the event, and venue_user_id
\* never changes.
C24_NonOwnerChangesNothing ==
    [][\A e \in DOMAIN events :
          /\ events'[e].venue_user_id = events[e].venue_user_id
          /\ events'[e] # events[e] =>
                \A v \in Venues \ {events[e].venue_user_id} :
                    /\ ~\E date \in Dates, hasCapacity \in BOOLEAN,
                           capacity \in CapacityInputs :
                           EditSubmit(v, date, hasCapacity, capacity)
                    /\ ~\E reason \in ReasonInputs :
                           handleCancelEvent(v, reason)]_vars

\* C25: an event with status "cancelled" has
\* cancellation_approved_by_admin = TRUE, and once TRUE the flag stays TRUE.
C25_CancelledIsApprovedByAdmin ==
    [][\A e \in DOMAIN events' :
          /\ events'[e].status = "cancelled"
                => events'[e].cancellation_approved_by_admin
          /\ (e \in DOMAIN events /\ events[e].cancellation_approved_by_admin)
                => events'[e].cancellation_approved_by_admin]_vars

\* C25 witness: an admin has rejected, from a dashboard loaded earlier, the
\* request of an event whose cancellation is approved; the flag is kept.
C25_Witness ==
    /\ toast.msg = "Cancellation request rejected"
    /\ events["e1"].status = "cancelled"
    /\ events["e1"].cancellation_approved_by_admin

\* C26: no row of rsvps is removed, no row changes its user or event, and a
\* row whose status is "cancelled" stays cancelled; a write of handleRSVP
\* that found no active RSVP of the user adds a new active row.
C26_CancelledRowStaysCancelled ==
    [][/\ Len(rsvps') >= Len(rsvps)
       /\ \A i \in DOMAIN rsvps :
             /\ rsvps'[i].user_id = rsvps[i].user_id
             /\ rsvps'[i].event_id = rsvps[i].event_id
             /\ rsvps[i].status = "cancelled" => rsvps'[i].status = "cancelled"
       /\ \A s \in Sessions :
             (WriteRSVP(s) /\ btn[s].existingRSVP = 0)
                 => /\ Len(rsvps') = Len(rsvps) + 1
                    /\ rsvps'[Len(rsvps')].status = "active"
                    /\ rsvps'[Len(rsvps')].user_id = SessionUser[s]]_vars

\* C26 witness: a user has an RSVP again after a toggle-off: the cancelled
\* row and, after it, a new active row.
C26_Witness ==
    /\ Len(rsvps) = 2
    /\ rsvps[1].status = "cancelled" /\ rsvps[2].status = "active"
    /\ rsvps[1].user_id = rsvps[2].user_id
    /\ rsvps[1].event_id = rsvps[2].event_id

\* C27: a row of rsvps becomes active, or an active row changes its type,
\* only while the status of its event is "approved".
C27_RsvpOnlyOnApprovedEvent ==
    [][\A i \in DOMAIN rsvps' :
          (/\ rsvps'[i].status = "active"
           /\ i \in DOMAIN rsvps => rsvps'[i] # rsvps[i])
          => events[rsvps'[i].event_id].status = "approved"]_vars

\* C28: the toggle-off of handleRSVP(type) cancels only active rows whose
\* rsvp_type is the clicked type.
C28_ToggleOffCancelsClickedType ==
    [][\A s \in Sessions, type \in RsvpTypes :
          handleRSVP(s, type) =>
              \A i \in DOMAIN rsvps :
                  (rsvps[i].status = "active" /\ rsvps'[i].status = "cancelled")
                      => rsvps[i].rsvp_type = type]_vars

\* the sessions of a user who has no other session
SoleSessions ==
    {s \in Sessions :
        /\ SessionUser[s] # Guest
        /\ \A t \in Sessions \ {s} : SessionUser[t] # SessionUser[s]}

\* C29: for a user with a single RSVPButton, whenever no call of handleRSVP
\* is under way the button's rsvpType is the type of the user's active RSVP
\* row for the event, or null when the user has none.
C29_LocalTypeMatchesStore ==
    \A s \in SoleSessions :
        (btn[s].mounted /\ btn[s].pc = "idle") =>
            LET rows == ActiveRows(rsvps, SessionUser[s], btn[s].eventId)
            IN /\ Cardinality(rows) <= 1
               /\ rows = {} => btn[s].rsvpType = NULL
               /\ \A i \in rows : btn[s].rsvpType = rsvps[i].rsvp_type

\* C29 witness: a change of u2's RSVP has failed at the store; the button
\* still shows the type of the row.
C29_Witness ==
    /\ toast = Toast("s3", "Failed to update RSVP")
    /\ btn["s3"].mounted /\ btn["s3"].pc = "idle"
    /\ btn["s3"].rsvpType = "interested"

====
